---- MODULE Spec2Model ----
(***************************************************************************)
(* OpenNOW rewrite, auth/login.cpp: the OAuth2 PKCE login helper.          *)
(* Strings are sequences of bytes (0..255), as std::string is; 32-bit      *)
(* words are pairs <<high half, low half>> of 16-bit values, so that the   *)
(* unsigned wraparound of the source is kept.                              *)
(***************************************************************************)
EXTENDS Integers, Sequences, FiniteSets, TLC

VARIABLES
    op,        \* the pure operation called ("none" while the socket calls are modelled)
    arg,       \* its input
    res,       \* its result, once pc = "done"
    busy,      \* loopback ports held by other processes
    pc,        \* position of the calling thread ("call", "done" around a pure operation)
    idx,       \* pick_callback_port: index into kRedirectPorts
    probes,    \* pick_callback_port: each candidate tried so far, whether it was free
               \* when tried, and what the probe did
    picked,    \* what pick_callback_port returned
    wport,     \* wait_for_callback_code: callback_port
    socks,     \* sockets this process holds open
    peer,      \* how many clients have connected to the listening socket
    code,      \* wait_for_callback_code: the local `code`
    ret,       \* what wait_for_callback_code handed to its caller
    log        \* socket calls made by the current wait_for_callback_code

vars == <<op, arg, res, busy, pc, idx, probes, picked, wport, socks, peer, code, ret, log>>

(***************************************************************************)
(* Characters                                                              *)
(***************************************************************************)
Ascii == <<
    " ", "!", "\"", "#", "$", "%", "&", "'", "(", ")", "*", "+", ",", "-", ".", "/",
    "0", "1", "2", "3", "4", "5", "6", "7", "8", "9", ":", ";", "<", "=", ">", "?",
    "@", "A", "B", "C", "D", "E", "F", "G", "H", "I", "J", "K", "L", "M", "N", "O",
    "P", "Q", "R", "S", "T", "U", "V", "W", "X", "Y", "Z", "[", "\\", "]", "^", "_",
    "grave", "a", "b", "c", "d", "e", "f", "g", "h", "i", "j", "k", "l", "m", "n", "o",
    "p", "q", "r", "s", "t", "u", "v", "w", "x", "y", "z", "{", "|", "}", "~" >>

\* the byte of a printable character (the grave accent, byte 96, is spelled out)
Ord(c) == 31 + (CHOOSE i \in 1..Len(Ascii) : Ascii[i] = c)

\* the bytes of a string literal written as a tuple of characters
Str(cs) == [i \in 1..Len(cs) |-> Ord(cs[i])]

IsUpper(c) == c >= Ord("A") /\ c <= Ord("Z")
IsLower(c) == c >= Ord("a") /\ c <= Ord("z")
IsDigit(c) == c >= Ord("0") /\ c <= Ord("9")

\* std::string::find(ch, from), 0-based; -1 is npos
RECURSIVE Find(_, _, _)
Find(s, ch, from) ==
    IF from >= Len(s) THEN -1
    ELSE IF s[from + 1] = ch THEN from
    ELSE Find(s, ch, from + 1)

\* std::string::find(needle, 0) for a needle of several bytes
RECURSIVE FindStr(_, _, _)
FindStr(s, needle, from) ==
    IF from + Len(needle) > Len(s) THEN -1
    ELSE IF SubSeq(s, from + 1, from + Len(needle)) = needle THEN from
    ELSE FindStr(s, needle, from + 1)

\* std::string::substr(pos, count), 0-based; count = -1 is npos
Substr(s, pos, count) ==
    IF count < 0 \/ pos + count > Len(s) THEN SubSeq(s, pos + 1, Len(s))
    ELSE SubSeq(s, pos + 1, pos + count)

(***************************************************************************)
(* 32-bit unsigned arithmetic on <<high, low>> halves                      *)
(***************************************************************************)
Half == 65536

RECURSIVE BitOp(_, _, _, _)
BitOp(f, a, b, n) ==
    IF n = 0 THEN 0
    ELSE LET r == IF f = "and" THEN (a % 2) * (b % 2) ELSE ((a % 2) + (b % 2)) % 2
         IN  r + 2 * BitOp(f, a \div 2, b \div 2, n - 1)

NibXor == [a \in 0..15, b \in 0..15 |-> BitOp("xor", a, b, 4)]
NibAnd == [a \in 0..15, b \in 0..15 |-> BitOp("and", a, b, 4)]

RECURSIVE Xor16(_, _)
Xor16(a, b) ==
    IF a = 0 THEN b
    ELSE IF b = 0 THEN a
    ELSE NibXor[a % 16, b % 16] + 16 * Xor16(a \div 16, b \div 16)

RECURSIVE And16(_, _)
And16(a, b) ==
    IF a = 0 \/ b = 0 THEN 0
    ELSE NibAnd[a % 16, b % 16] + 16 * And16(a \div 16, b \div 16)

Xor32(x, y) == <<Xor16(x[1], y[1]), Xor16(x[2], y[2])>>
And32(x, y) == <<And16(x[1], y[1]), And16(x[2], y[2])>>
Not32(x) == <<Half - 1 - x[1], Half - 1 - x[2]>>

\* uint32_t addition: wraps modulo 2^32
Add32(x, y) ==
    LET lo == x[2] + y[2]
    IN  <<(x[1] + y[1] + (lo \div Half)) % Half, lo % Half>>

\* x >> n, for 0 < n < 16
Shr32(x, n) ==
    <<x[1] \div (2 ^ n), (x[2] \div (2 ^ n)) + (x[1] % (2 ^ n)) * (2 ^ (16 - n))>>

\* (x >> n) | (x << (32 - n)), for 0 < n < 32
rotr(x, n) ==
    IF n >= 16
    THEN LET m == n - 16
         IN  IF m = 0 THEN <<x[2], x[1]>>
             ELSE <<(x[2] \div (2 ^ m)) + (x[1] % (2 ^ m)) * (2 ^ (16 - m)),
                    (x[1] \div (2 ^ m)) + (x[2] % (2 ^ m)) * (2 ^ (16 - m))>>
    ELSE <<(x[1] \div (2 ^ n)) + (x[2] % (2 ^ n)) * (2 ^ (16 - n)),
           (x[2] \div (2 ^ n)) + (x[1] % (2 ^ n)) * (2 ^ (16 - n))>>

(***************************************************************************)
(* sha256                                                                  *)
(***************************************************************************)
kTable == <<
    <<17034, 12184>>, <<28983, 17553>>, <<46528, 64463>>, <<59829, 56229>>,
    <<14678, 49755>>, <<23025, 4593>>, <<37439, 33444>>, <<43804, 24277>>,
    <<55303, 43672>>, <<4739, 23297>>, <<9265, 34238>>, <<21772, 32195>>,
    <<29374, 23924>>, <<32990, 45566>>, <<39900, 1703>>, <<49563, 61812>>,
    <<58523, 27073>>, <<61374, 18310>>, <<4033, 40390>>, <<9228, 41420>>,
    <<11753, 11375>>, <<19060, 33962>>, <<23728, 43484>>, <<30457, 35034>>,
    <<38974, 20818>>, <<43057, 50797>>, <<45059, 10184>>, <<48985, 32711>>,
    <<50912, 3059>>, <<54695, 37191>>, <<1738, 25425>>, <<5161, 10599>>,
    <<10167, 2693>>, <<11803, 8504>>, <<19756, 28156>>, <<21304, 3347>>,
    <<25866, 29524>>, <<30314, 2747>>, <<33218, 51502>>, <<37490, 11397>>,
    <<41663, 59553>>, <<43034, 26187>>, <<49739, 35696>>, <<51052, 20899>>,
    <<53650, 59417>>, <<54937, 1572>>, <<62478, 13701>>, <<4202, 41072>>,
    <<6564, 49430>>, <<7735, 27656>>, <<10056, 30540>>, <<13488, 48309>>,
    <<14620, 3251>>, <<20184, 43594>>, <<23452, 51791>>, <<26670, 28659>>,
    <<29839, 33518>>, <<30885, 25455>>, <<33992, 30740>>, <<36039, 520>>,
    <<37054, 65530>>, <<42064, 27883>>, <<48889, 41975>>, <<50801, 30962>> >>

kInitialHash == <<
    <<27145, 58983>>, <<47975, 44677>>, <<15470, 62322>>, <<42319, 62778>>,
    <<20750, 21119>>, <<39685, 26764>>, <<8067, 55723>>, <<23520, 52505>> >>

RECURSIVE Zeros(_)
Zeros(n) == IF n = 0 THEN << >> ELSE <<0>> \o Zeros(n - 1)

\* the message with 0x80, zero bytes up to 56 mod 64, and the 64-bit big-endian bit length
sha256Pad(input) ==
    LET n == Len(input)
        bit_len == n * 8
        \* bit_len is below 2^31 for every input of the model: its high four bytes are 0
        lenBytes == [i \in 1..8 |-> IF i <= 4 THEN 0 ELSE (bit_len \div (2 ^ (8 * (8 - i)))) % 256]
    IN  input \o <<128>> \o Zeros((55 - n) % 64) \o lenBytes

RECURSIVE sha256Schedule(_, _)
\* w[16..63] from w[0..15]; w is 1-based here, so i is the source's i + 1
sha256Schedule(w, i) ==
    IF i > 64 THEN w
    ELSE LET s0 == Xor32(Xor32(rotr(w[i - 15], 7), rotr(w[i - 15], 18)), Shr32(w[i - 15], 3))
             s1 == Xor32(Xor32(rotr(w[i - 2], 17), rotr(w[i - 2], 19)), Shr32(w[i - 2], 10))
         IN  sha256Schedule(Append(w, Add32(Add32(Add32(w[i - 16], s0), w[i - 7]), s1)), i + 1)

\* one round on the working variables v = <<a, b, c, d, e, f, g, hh>>
sha256Round(v, k, wi) ==
    LET a == v[1]
        b == v[2]
        c == v[3]
        d == v[4]
        e == v[5]
        f == v[6]
        g == v[7]
        hh == v[8]
        s1 == Xor32(Xor32(rotr(e, 6), rotr(e, 11)), rotr(e, 25))
        ch == Xor32(And32(e, f), And32(Not32(e), g))
        temp1 == Add32(Add32(Add32(Add32(hh, s1), ch), k), wi)
        s0 == Xor32(Xor32(rotr(a, 2), rotr(a, 13)), rotr(a, 22))
        maj == Xor32(Xor32(And32(a, b), And32(a, c)), And32(b, c))
        temp2 == Add32(s0, maj)
    IN  <<Add32(temp1, temp2), a, b, c, Add32(d, temp1), e, f, g>>

RECURSIVE sha256Rounds(_, _, _)
\* the 64 rounds; i is the source's i + 1. (Len(next) has each round evaluated
\* before the next one starts.)
sha256Rounds(v, w, i) ==
    IF i > 64 THEN v
    ELSE LET next == sha256Round(v, kTable[i], w[i])
         IN  IF Len(next) = 8 THEN sha256Rounds(next, w, i + 1) ELSE next

RECURSIVE sha256Blocks(_, _, _)
sha256Blocks(h, msg, offset) ==
    IF offset >= Len(msg) THEN h
    ELSE LET w16 == [i \in 1..16 |->
                        <<msg[offset + 4 * (i - 1) + 1] * 256 + msg[offset + 4 * (i - 1) + 2],
                          msg[offset + 4 * (i - 1) + 3] * 256 + msg[offset + 4 * (i - 1) + 4]>>]
             v == sha256Rounds(h, sha256Schedule(w16, 17), 1)
         IN  sha256Blocks([i \in 1..8 |-> Add32(h[i], v[i])], msg, offset + 64)

\* the 32-byte digest
sha256(input) ==
    LET h == sha256Blocks(kInitialHash, sha256Pad(input), 0)
    IN  [i \in 1..32 |->
            LET word == h[((i - 1) \div 4) + 1]
                k == (i - 1) % 4
            IN  IF k = 0 THEN word[1] \div 256
                ELSE IF k = 1 THEN word[1] % 256
                ELSE IF k = 2 THEN word[2] \div 256
                ELSE word[2] % 256]

(***************************************************************************)
(* base64url, url_encode, url_decode                                       *)
(***************************************************************************)
alphabet ==
    Str(<<"A","B","C","D","E","F","G","H","I","J","K","L","M","N","O","P","Q","R","S","T","U","V","W","X","Y","Z",
          "a","b","c","d","e","f","g","h","i","j","k","l","m","n","o","p","q","r","s","t","u","v","w","x","y","z",
          "0","1","2","3","4","5","6","7","8","9","-","_">>)

RECURSIVE base64urlLoop(_, _, _)
\* the while loop over whole 3-byte chunks; i is the source's index, data is 1-based
base64urlLoop(data, i, out) ==
    IF i + 2 < Len(data)
    THEN LET chunk == data[i + 1] * 65536 + data[i + 2] * 256 + data[i + 3]
         IN  base64urlLoop(data, i + 3,
                 out \o <<alphabet[((chunk \div 262144) % 64) + 1],
                          alphabet[((chunk \div 4096) % 64) + 1],
                          alphabet[((chunk \div 64) % 64) + 1],
                          alphabet[(chunk % 64) + 1]>>)
    ELSE <<i, out>>

\* a faulty variant of base64urlTail: the tail of padded base64, with `=` filling the last group
base64urlTailPadded(data, i, out) ==
    IF i < Len(data)
    THEN LET b0 == data[i + 1]
             first == Append(out, alphabet[((b0 \div 4) % 64) + 1])
         IN  IF i + 1 < Len(data)
             THEN LET b1 == data[i + 2]
                  IN  first \o <<alphabet[((b0 % 4) * 16 + ((b1 \div 16) % 16)) + 1],
                                 alphabet[((b1 % 16) * 4) + 1], Ord("=")>>
             ELSE first \o <<alphabet[((b0 % 4) * 16) + 1], Ord("="), Ord("=")>>
    ELSE out

\* the 1- or 2-byte tail after the loop stopped at index i
base64urlTail(data, i, out) ==
    IF i < Len(data)
    THEN LET b0 == data[i + 1]
             first == Append(out, alphabet[((b0 \div 4) % 64) + 1])
         IN  IF i + 1 < Len(data)
             THEN LET b1 == data[i + 2]
                  IN  first \o <<alphabet[((b0 % 4) * 16 + ((b1 \div 16) % 16)) + 1],
                                 alphabet[((b1 % 16) * 4) + 1]>>
             ELSE Append(first, alphabet[((b0 % 4) * 16) + 1])
    ELSE out

base64url(data) ==
    LET l == base64urlLoop(data, 0, << >>)
    IN  base64urlTail(data, l[1], l[2])

HexDigitsUpper == Str(<<"0","1","2","3","4","5","6","7","8","9","A","B","C","D","E","F">>)

\* the bytes url_encode copies unchanged
IsUnreserved(c) ==
    IsUpper(c) \/ IsLower(c) \/ IsDigit(c)
        \/ c = Ord("-") \/ c = Ord("_") \/ c = Ord(".") \/ c = Ord("~")

\* a faulty variant of url_encodeByte: the hex digits without setw(2), one digit below 16
url_encodeByteNoWidth(c) ==
    IF IsUnreserved(c) THEN <<c>>
    ELSE IF c < 16 THEN <<Ord("%"), HexDigitsUpper[c + 1]>>
    ELSE <<Ord("%"), HexDigitsUpper[(c \div 16) + 1], HexDigitsUpper[(c % 16) + 1]>>

\* '%' << uppercase << hex << setw(2) << setfill('0') << int(c)
url_encodeByte(c) ==
    IF IsUnreserved(c) THEN <<c>>
    ELSE <<Ord("%"), HexDigitsUpper[(c \div 16) + 1], HexDigitsUpper[(c % 16) + 1]>>

RECURSIVE url_encodeFrom(_, _)
url_encodeFrom(raw, i) ==
    IF i > Len(raw) THEN << >>
    ELSE url_encodeByte(raw[i]) \o url_encodeFrom(raw, i + 1)

url_encode(raw) == url_encodeFrom(raw, 1)

\* the value of a hexadecimal digit, -1 for any other byte
HexVal(c) ==
    IF IsDigit(c) THEN c - Ord("0")
    ELSE IF c >= Ord("a") /\ c <= Ord("f") THEN c - Ord("a") + 10
    ELSE IF c >= Ord("A") /\ c <= Ord("F") THEN c - Ord("A") + 10
    ELSE -1

\* isspace in the C locale: space, \t \n \v \f \r
IsSpace(c) == c = 32 \/ (c >= 9 /\ c <= 13)

\* std::stoi(hex, nullptr, 16) on the two bytes <<c1, c2>>: leading white space is
\* skipped, a sign is taken, then the longest run of hex digits is converted; with
\* no digit converted it throws std::invalid_argument. (A "0x" prefix with no digit
\* behind it converts the "0".)
stoi16(c1, c2) ==
    IF HexVal(c1) >= 0
    THEN [tag |-> "ok", val |-> IF HexVal(c2) >= 0 THEN 16 * HexVal(c1) + HexVal(c2) ELSE HexVal(c1)]
    ELSE IF IsSpace(c1) /\ HexVal(c2) >= 0 THEN [tag |-> "ok", val |-> HexVal(c2)]
    ELSE IF c1 = Ord("+") /\ HexVal(c2) >= 0 THEN [tag |-> "ok", val |-> HexVal(c2)]
    ELSE IF c1 = Ord("-") /\ HexVal(c2) >= 0 THEN [tag |-> "ok", val |-> 0 - HexVal(c2)]
    ELSE [tag |-> "throw"]

RECURSIVE url_decodeFrom(_, _, _)
\* the loop of url_decode at the source's index i with `out` built so far
url_decodeFrom(value, i, out) ==
    IF i >= Len(value) THEN [tag |-> "ok", val |-> out]
    ELSE IF value[i + 1] = Ord("%") /\ i + 2 < Len(value)
    THEN LET n == stoi16(value[i + 2], value[i + 3])
         IN  IF n.tag = "throw" THEN [tag |-> "throw"]
             ELSE url_decodeFrom(value, i + 3, Append(out, n.val % 256))
    ELSE IF value[i + 1] = Ord("+") THEN url_decodeFrom(value, i + 1, Append(out, Ord(" ")))
    ELSE url_decodeFrom(value, i + 1, Append(out, value[i + 1]))

\* [tag |-> "ok", val |-> bytes], or [tag |-> "throw"] when std::stoi throws
url_decode(value) == url_decodeFrom(value, 0, << >>)

(***************************************************************************)
(* Constants of login.cpp                                                  *)
(***************************************************************************)
kClientId ==
    Str(<<"Z","U","7","s","P","N","-","m","i","L","u","j","M","D","9","5","L","f","O","Q","4","5","3","I",
        "B","0","A","t","j","M","8","s","M","y","v","g","J","9","w","C","X","E","Q">>)

kScopes ==
    Str(<<"o","p","e","n","i","d"," ","c","o","n","s","e","n","t"," ","e","m","a","i","l"," ","t","k","_",
        "c","l","i","e","n","t"," ","a","g","e">>)

kRedirectPorts == <<2259, 6460, 7119, 8870, 9096>>

charset ==
    Str(<<"A","B","C","D","E","F","G","H","I","J","K","L","M","N","O","P","Q","R","S","T","U","V","W","X","Y","Z",
          "a","b","c","d","e","f","g","h","i","j","k","l","m","n","o","p","q","r","s","t","u","v","w","x","y","z",
          "0","1","2","3","4","5","6","7","8","9">>)

\* LoginProvider::nvidia_default().idp_id
nvidia_default_idp_id ==
    Str(<<"P","D","i","A","h","v","2","k","J","T","F","e","Q","7","W","O","P","q","i","Q","2","t","R","Z",
        "7","l","G","h","R","2","X","1","1","d","X","v","M","4","T","Z","S","x","g">>)

kAuthorizePrefix ==
    Str(<<"h","t","t","p","s",":","/","/","l","o","g","i","n",".","n","v","i","d","i","a",".","c","o","m",
        "/","a","u","t","h","o","r","i","z","e","?">>)

kResponse ==
    Str(<<"H","T","T","P","/","1",".","1"," ","2","0","0"," ","O","K">>) \o <<13, 10>>
        \o Str(<<"C","o","n","t","e","n","t","-","T","y","p","e",":"," ","t","e","x","t","/","h","t","m","l">>)
        \o <<13, 10, 13, 10>>
        \o Str(<<"<","h","t","m","l",">","<","b","o","d","y",">","<","h","1",">","L","o","g","i","n"," ","S","u",
           "c","c","e","s","s","f","u","l","<","/","h","1",">","<","p",">","Y","o","u"," ","c","a","n"," ",
           "r","e","t","u","r","n"," ","t","o"," ","O","p","e","n","N","O","W"," ","R","e","w","r","i","t",
           "e",".","<","/","p",">","<","/","b","o","d","y",">","<","/","h","t","m","l",">">>)

(***************************************************************************)
(* PKCE and the authorization URL                                          *)
(***************************************************************************)
\* std::to_string of an integer
RECURSIVE to_string(_)
to_string(n) ==
    IF n < 0 THEN <<Ord("-")>> \o to_string(0 - n)
    ELSE IF n < 10 THEN <<Ord("0") + n>>
    ELSE Append(to_string(n \div 10), Ord("0") + (n % 10))

\* draws[i] is what dist(rng) returned at iteration i: a value in 0..sizeof(charset)-2
random_alnum(len, draws) == [i \in 1..len |-> charset[draws[i] + 1]]

kVerifierLen == 64

make_pkce_challenge(draws) ==
    LET verifier == random_alnum(kVerifierLen, draws)
    IN  [verifier |-> verifier, challenge |-> base64url(sha256(verifier))]

\* now is high_resolution_clock::now().time_since_epoch().count()
generate_nonce(now) == base64url(sha256(to_string(now) \o Str(<<":","n","o","n","c","e">>)))

device_id ==
    base64url(sha256(Str(<<"o","p","e","n","n","o","w","-","r","e","w","r","i","t","e","-","d","e","v","i","c","e">>)))

build_auth_url(pkce, callback_port, provider_idp_id, now) ==
    LET redirect_uri == Str(<<"h","t","t","p",":","/","/","l","o","c","a","l","h","o","s","t",":">>)
                            \o to_string(callback_port)
    IN  kAuthorizePrefix
        \o Str(<<"r","e","s","p","o","n","s","e","_","t","y","p","e","=","c","o","d","e">>)
        \o Str(<<"&","d","e","v","i","c","e","_","i","d","=">>) \o url_encode(device_id)
        \o Str(<<"&","s","c","o","p","e","=">>) \o url_encode(kScopes)
        \o Str(<<"&","c","l","i","e","n","t","_","i","d","=">>) \o url_encode(kClientId)
        \o Str(<<"&","r","e","d","i","r","e","c","t","_","u","r","i","=">>) \o url_encode(redirect_uri)
        \o Str(<<"&","u","i","_","l","o","c","a","l","e","s","=","e","n","_","U","S">>)
        \o Str(<<"&","n","o","n","c","e","=">>) \o url_encode(generate_nonce(now))
        \o Str(<<"&","p","r","o","m","p","t","=","s","e","l","e","c","t","_","a","c","c","o","u","n","t">>)
        \o Str(<<"&","c","o","d","e","_","c","h","a","l","l","e","n","g","e","=">>) \o url_encode(pkce.challenge)
        \o Str(<<"&","c","o","d","e","_","c","h","a","l","l","e","n","g","e","_","m","e","t","h","o","d","=","S","2","5","6">>)
        \o Str(<<"&","i","d","p","_","i","d","=">>) \o url_encode(provider_idp_id)

(***************************************************************************)
(* extract_code_from_callback_target                                       *)
(***************************************************************************)
None == [tag |-> "none"]
Throw == [tag |-> "throw"]
Some(v) == [tag |-> "some", val |-> v]

kCodePrefix == Str(<<"c","o","d","e","=">>)

\* param.rfind(prefix, 0) == 0
StartsWith(param, prefix) ==
    Len(param) >= Len(prefix) /\ SubSeq(param, 1, Len(prefix)) = prefix

\* a faulty variant of IsCodeParam: without the test param.size() > 5
IsCodeParamAnyValue(param) == StartsWith(param, kCodePrefix)

\* whether the loop returns at this `&`-separated parameter
IsCodeParam(param) == StartsWith(param, kCodePrefix) /\ Len(param) > 5

RECURSIVE extractLoop(_, _)
\* the while loop at `cursor`
extractLoop(query, cursor) ==
    IF cursor >= Len(query) THEN None
    ELSE LET amp == Find(query, Ord("&"), cursor)
             param == Substr(query, cursor, IF amp = -1 THEN -1 ELSE amp - cursor)
         IN  IF IsCodeParam(param)
             THEN LET d == url_decode(Substr(param, 5, -1))
                  IN  IF d.tag = "throw" THEN Throw ELSE Some(d.val)
             ELSE IF amp = -1 THEN None
             ELSE extractLoop(query, amp + 1)

\* Some(code), None, or Throw when url_decode lets std::invalid_argument escape
extract_code_from_callback_target(callback_target) ==
    LET query_pos == Find(callback_target, Ord("?"), 0)
    IN  IF query_pos = -1 THEN None
        ELSE extractLoop(Substr(callback_target, query_pos + 1, -1), 0)

\* std::string req(buffer.data()): the bytes read, up to the first NUL
RECURSIVE CString(_, _)
CString(buffer, i) ==
    IF i > Len(buffer) \/ buffer[i] = 0 THEN SubSeq(buffer, 1, i - 1) ELSE CString(buffer, i + 1)

\* the request-line parse of wait_for_callback_code on the bytes recv stored
\* (read_bytes = Len(buffer); read_bytes <= 0 leaves `code` empty)
parse_request(buffer) ==
    IF Len(buffer) = 0 THEN None
    ELSE LET req == CString(buffer, 1)
             line_end == FindStr(req, <<13, 10>>, 0)
             first_line == Substr(req, 0, line_end)
             first_space == Find(first_line, Ord(" "), 0)
             second_space == Find(first_line, Ord(" "), first_space + 1)
         IN  IF first_space # -1 /\ second_space # -1
             THEN extract_code_from_callback_target(
                      Substr(first_line, first_space + 1, second_space - first_space - 1))
             ELSE None

(***************************************************************************)
(* Sockets: pick_callback_port and wait_for_callback_code                  *)
(***************************************************************************)
Ports == {kRedirectPorts[i] : i \in 1..Len(kRedirectPorts)}

\* App::login_bootstrap_preview: pick_callback_port().value_or(2259)
kFallbackPort == 2259

\* how many connections the environment makes to one listener at most
MaxClients == 2

\* a faulty variant of close_socket: the descriptor is never closed
close_socketLeak(open, s) == open

\* close(s): the set of open sockets without s
close_socket(open, s) == open \ {s}

\* a faulty variant of bind_localhost_port: the result of bind is not looked at
bind_localhost_portUnchecked(port, held) == TRUE

\* bind(sock, 127.0.0.1:port) == 0: the port is held by no other socket
bind_localhost_port(port, held) == port \notin held

Has(l, call) == \E i \in 1..Len(l) : l[i] = call

\* the port this process holds through a bound listening socket
Held == IF "server" \in socks /\ Has(log, "bind") THEN {wport} ELSE {}

Listening == "server" \in socks /\ Has(log, "listen")

LF == <<13, 10>>

\* what a browser (or anything else on the loopback) may send
Requests == {
    Str(<<"G","E","T"," ","/","?","c","o","d","e","=","a","b","&","s","t","a","t","e","=","x"," ","H","T","T","P","/","1",".","1">>) \o LF,
    Str(<<"G","E","T"," ","/","?","s","t","a","t","e","=","x"," ","H","T","T","P","/","1",".","1">>) \o LF,
    Str(<<"G","E","T"," ","/"," ","H","T","T","P","/","1",".","1">>) \o LF,
    Str(<<"h","e","l","l","o">>) \o LF,
    Str(<<"G","E","T"," ","/","?","c","o","d","e","=","a","%","2","F","+","b"," ","H","T","T","P","/","1",".","1">>) \o LF,
    Str(<<"G","E","T"," ","/","?","c","o","d","e","=","%","z","z","1"," ","H","T","T","P","/","1",".","1">>) \o LF,
    Str(<<"G","E","T"," ","/","?","c","o","d","e","=","a">>) \o <<0>> \o Str(<<"b"," ","H","T","T","P","/","1",".","1">>) \o LF }

\* what one recv may store: nothing (read_bytes <= 0), or the first bytes of a request
Received == {<< >>} \cup UNION {{SubSeq(r, 1, n) : n \in 1..Len(r)} : r \in Requests}

\* -------- pick_callback_port --------

CallPick ==
    /\ pc = "start"
    /\ pc' = "p_socket"
    /\ idx' = 1
    /\ probes' = << >>
    /\ UNCHANGED <<op, arg, res, busy, picked, wport, socks, peer, code, ret, log>>

\* the end of one loop iteration that did not return: the next port, or std::nullopt
pickContinue(entry) ==
    /\ probes' = Append(probes, entry)
    /\ IF idx < Len(kRedirectPorts)
       THEN /\ idx' = idx + 1
            /\ pc' = "p_socket"
            /\ UNCHANGED picked
       ELSE /\ pc' = "picked"
            /\ picked' = None
            /\ UNCHANGED idx

\* s = socket(...); if (s == kInvalidSocket) continue;
ProbeSocket ==
    /\ pc = "p_socket"
    /\ \E created \in BOOLEAN :
          IF created
          THEN /\ socks' = socks \cup {"probe"}
               /\ pc' = "p_bind"
               /\ UNCHANGED <<idx, probes, picked>>
          ELSE /\ pickContinue([port |-> kRedirectPorts[idx],
                                free |-> kRedirectPorts[idx] \notin busy,
                                result |-> "nosocket"])
               /\ UNCHANGED socks
    /\ UNCHANGED <<op, arg, res, busy, wport, peer, code, ret, log>>

\* ok = bind_localhost_port(s, port); close_socket(s); if (ok) return port;
ProbeBind ==
    /\ pc = "p_bind"
    /\ LET port == kRedirectPorts[idx]
           ok == bind_localhost_port(port, busy)
       IN  /\ socks' = close_socket(socks, "probe")
           /\ IF ok
              THEN /\ probes' = Append(probes, [port |-> port, free |-> port \notin busy, result |-> "bound"])
                   /\ pc' = "picked"
                   /\ picked' = Some(port)
                   /\ UNCHANGED idx
              ELSE pickContinue([port |-> port, free |-> port \notin busy, result |-> "inuse"])
    /\ UNCHANGED <<op, arg, res, busy, wport, peer, code, ret, log>>

\* -------- wait_for_callback_code --------

\* the caller passes the picked port, or its fallback
CallWait ==
    /\ pc = "picked"
    /\ pc' = "w_socket"
    /\ wport' = IF picked = None THEN kFallbackPort ELSE picked.val
    /\ log' = << >>
    /\ code' = None
    /\ peer' = 0
    /\ idx' = 0
    /\ probes' = << >>
    /\ UNCHANGED <<op, arg, res, busy, picked, socks, ret>>

\* server = socket(...); if (server == kInvalidSocket) return std::nullopt;
WaitSocket ==
    /\ pc = "w_socket"
    /\ \E created \in BOOLEAN :
          IF created
          THEN /\ socks' = socks \cup {"server"}
               /\ log' = Append(log, "socket")
               /\ pc' = "w_bind"
               /\ UNCHANGED ret
          ELSE /\ log' = Append(log, "socket_failed")
               /\ pc' = "returned"
               /\ ret' = None
               /\ UNCHANGED socks
    /\ UNCHANGED <<op, arg, res, busy, idx, probes, picked, wport, peer, code>>

\* setsockopt; if (!bind_localhost_port(server, callback_port) || listen(server, 1) != 0)
\*     { close_socket(server); return std::nullopt; }
WaitBind ==
    /\ pc = "w_bind"
    /\ \E listened \in BOOLEAN :
          LET bound == bind_localhost_port(wport, busy)
          IN  IF bound /\ listened
              THEN /\ log' = log \o <<"setsockopt", "bind", "listen">>
                   /\ pc' = "w_accept"
                   /\ UNCHANGED <<socks, ret>>
              ELSE /\ log' = log \o (IF bound THEN <<"setsockopt", "bind", "listen_failed", "close_server">>
                                              ELSE <<"setsockopt", "bind_failed", "close_server">>)
                   /\ socks' = close_socket(socks, "server")
                   /\ pc' = "returned"
                   /\ ret' = None
    /\ UNCHANGED <<op, arg, res, busy, idx, probes, picked, wport, peer, code>>

\* a faulty variant of WaitAccept: accept on a non-blocking socket, returning with nobody connected
WaitAcceptNonBlocking ==
    /\ pc = "w_accept"
    /\ socks' = socks \cup {"client"}
    /\ log' = Append(log, "accept")
    /\ pc' = "w_recv"
    /\ UNCHANGED <<op, arg, res, busy, idx, probes, picked, wport, peer, code, ret>>

\* client = accept(server, ...): blocks until a connection is queued
WaitAccept ==
    /\ pc = "w_accept"
    /\ peer > 0
    /\ socks' = socks \cup {"client"}
    /\ log' = Append(log, "accept")
    /\ pc' = "w_recv"
    /\ UNCHANGED <<op, arg, res, busy, idx, probes, picked, wport, peer, code, ret>>

\* accept fails (EINTR, ECONNABORTED, EMFILE, ...):
\* if (client == kInvalidSocket) { close_socket(server); return std::nullopt; }
WaitAcceptFail ==
    /\ pc = "w_accept"
    /\ socks' = close_socket(socks, "server")
    /\ log' = log \o <<"accept_failed", "close_server">>
    /\ pc' = "returned"
    /\ ret' = None
    /\ UNCHANGED <<op, arg, res, busy, idx, probes, picked, wport, peer, code>>

\* read_bytes = recv(client, ...) and the parse of the request line; an exception of
\* extract_code_from_callback_target leaves the function at once
WaitRecv ==
    /\ pc = "w_recv"
    /\ \E b \in Received :
          /\ code' = parse_request(b)
          /\ log' = Append(log, "recv")
          /\ IF parse_request(b) = Throw
             THEN pc' = "threw" /\ ret' = Throw
             ELSE pc' = "w_send" /\ UNCHANGED ret
    /\ UNCHANGED <<op, arg, res, busy, idx, probes, picked, wport, socks, peer>>

\* a faulty variant of WaitSend: the response is written only when a code was found
WaitSendOnlyWithCode ==
    /\ pc = "w_send"
    /\ log' = IF code = None THEN log ELSE Append(log, "send")
    /\ pc' = "w_close_client"
    /\ UNCHANGED <<op, arg, res, busy, idx, probes, picked, wport, socks, peer, code, ret>>

\* send(client, response, ...)
WaitSend ==
    /\ pc = "w_send"
    /\ log' = Append(log, "send")
    /\ pc' = "w_close_client"
    /\ UNCHANGED <<op, arg, res, busy, idx, probes, picked, wport, socks, peer, code, ret>>

\* a faulty variant of WaitCloseClient: a serving loop, back to accept for the next connection
WaitCloseClientThenAccept ==
    /\ pc = "w_close_client"
    /\ socks' = close_socket(socks, "client")
    /\ log' = Append(log, "close_client")
    /\ pc' = "w_accept"
    /\ UNCHANGED <<op, arg, res, busy, idx, probes, picked, wport, peer, code, ret>>

\* close_socket(client)
WaitCloseClient ==
    /\ pc = "w_close_client"
    /\ socks' = close_socket(socks, "client")
    /\ log' = Append(log, "close_client")
    /\ pc' = "w_close_server"
    /\ UNCHANGED <<op, arg, res, busy, idx, probes, picked, wport, peer, code, ret>>

\* close_socket(server); return code;
WaitCloseServer ==
    /\ pc = "w_close_server"
    /\ socks' = close_socket(socks, "server")
    /\ log' = Append(log, "close_server")
    /\ pc' = "returned"
    /\ ret' = code
    /\ UNCHANGED <<op, arg, res, busy, idx, probes, picked, wport, peer, code>>

\* the next login attempt of the same process
NewAttempt ==
    /\ pc = "returned"
    /\ pc' = "start"
    /\ idx' = 0
    /\ probes' = << >>
    /\ picked' = None
    /\ wport' = 0
    /\ peer' = 0
    /\ code' = None
    /\ ret' = None
    /\ log' = << >>
    /\ UNCHANGED <<op, arg, res, busy, socks>>

\* -------- the environment --------

\* another process binds a candidate port
EnvClaim ==
    /\ \E p \in Ports \ (busy \cup Held) : busy' = busy \cup {p}
    /\ UNCHANGED <<op, arg, res, pc, idx, probes, picked, wport, socks, peer, code, ret, log>>

\* another process releases its port
EnvRelease ==
    /\ \E p \in busy : busy' = busy \ {p}
    /\ UNCHANGED <<op, arg, res, pc, idx, probes, picked, wport, socks, peer, code, ret, log>>

\* a client connects to the listening socket
ClientConnect ==
    /\ Listening
    /\ peer < MaxClients
    /\ peer' = peer + 1
    /\ UNCHANGED <<op, arg, res, busy, pc, idx, probes, picked, wport, socks, code, ret, log>>

NetInit ==
    /\ op = "none"
    /\ arg = << >>
    /\ res = << >>
    /\ busy \in SUBSET Ports
    /\ pc = "start"
    /\ idx = 0
    /\ probes = << >>
    /\ picked = None
    /\ wport = 0
    /\ socks = {}
    /\ peer = 0
    /\ code = None
    /\ ret = None
    /\ log = << >>

NetNext ==
    \/ CallPick
    \/ ProbeSocket
    \/ ProbeBind
    \/ CallWait
    \/ WaitSocket
    \/ WaitBind
    \/ WaitAccept
    \/ WaitAcceptFail
    \/ WaitRecv
    \/ WaitSend
    \/ WaitCloseClient
    \/ WaitCloseServer
    \/ NewAttempt
    \/ EnvClaim
    \/ EnvRelease
    \/ ClientConnect

SpecNet == NetInit /\ [][NetNext]_vars

\* the program's own steps that do not wait for anybody; recv is taken to end, the
\* connected client sending something or closing
FairNet ==
    /\ SpecNet
    /\ WF_vars(WaitSocket)
    /\ WF_vars(WaitBind)
    /\ WF_vars(WaitAccept)
    /\ WF_vars(WaitRecv)
    /\ WF_vars(WaitSend)
    /\ WF_vars(WaitCloseClient)
    /\ WF_vars(WaitCloseServer)

(***************************************************************************)
(* The pure operations, applied to bounded inputs                          *)
(***************************************************************************)
MaxSeed == 2
MaxStep == 1
MaxBytes == 4
MaxChallengeLen == 2
MaxClock == 1
MaxParams == 2

\* all sequences over S of length at most n
RECURSIVE SeqsUpTo(_, _)
SeqsUpTo(S, n) ==
    IF n = 0 THEN {<< >>}
    ELSE LET shorter == SeqsUpTo(S, n - 1)
         IN  shorter \cup {Append(q, x) : q \in shorter, x \in S}

\* bytes that reach every 6-bit group value class: 0, 'M', and the groups 62 and 63
SampleBytes == {0, 77, 251, 255}

\* bytes url_encode escapes (one below 16, the URL delimiters, a high byte) and one it keeps
SampleChars == {10, Ord("%"), Ord("&"), Ord("+"), Ord("A"), 255}

\* what the random engine hands out over the 64 iterations of random_alnum
RngDraws(seed, step) == [i \in 1..kVerifierLen |-> (seed + step * i) % Len(charset)]

\* the `&`-separated parameters a callback target is put together from
SampleParams == {
    Str(<<"c","o","d","e","=","a","b","c">>),
    Str(<<"c","o","d","e","=","x","%","2","F","+","y">>),
    Str(<<"c","o","d","e","=">>),
    Str(<<"c","o","d","e">>),
    Str(<<"s","t","a","t","e","=","f","o","o">>),
    Str(<<"x","c","o","d","e","=","1">>),
    Str(<<"c","o","d","e","=","%","z","z","1">>),
    Str(<<"c","o","d","e","=","%","1","z","1">>),
    Str(<<"c","o","d","e","=","a","%","4">>),
    Str(<<"c","o","d","e","=","%","4","1">>),
    << >> }

RECURSIVE Join(_, _)
Join(params, i) ==
    IF i > Len(params) THEN << >>
    ELSE IF i = Len(params) THEN params[i]
    ELSE params[i] \o <<Ord("&")>> \o Join(params, i + 1)

SampleTargets ==
    {Str(<<"/">>), Str(<<"/","c","o","d","e","=","a","b","c">>)}
        \cup {Str(<<"/","?">>) \o Join(ps, 1) : ps \in SeqsUpTo(SampleParams, MaxParams)}

MakePkce ==
    /\ op = "make_pkce_challenge"
    /\ pc = "call"
    /\ pc' = "done"
    /\ res' = make_pkce_challenge(arg)
    /\ UNCHANGED <<op, arg, busy, idx, probes, picked, wport, socks, peer, code, ret, log>>

Base64Url ==
    /\ op = "base64url"
    /\ pc = "call"
    /\ pc' = "done"
    /\ res' = base64url(arg)
    /\ UNCHANGED <<op, arg, busy, idx, probes, picked, wport, socks, peer, code, ret, log>>

BuildAuthUrl ==
    /\ op = "build_auth_url"
    /\ pc = "call"
    /\ pc' = "done"
    /\ res' = build_auth_url(arg.pkce, arg.callback_port, arg.provider_idp_id, arg.now)
    /\ UNCHANGED <<op, arg, busy, idx, probes, picked, wport, socks, peer, code, ret, log>>

UrlEncode ==
    /\ op = "url_encode"
    /\ pc = "call"
    /\ pc' = "done"
    /\ res' = url_encode(arg)
    /\ UNCHANGED <<op, arg, busy, idx, probes, picked, wport, socks, peer, code, ret, log>>

ExtractCode ==
    /\ op = "extract_code_from_callback_target"
    /\ pc = "call"
    /\ pc' = "done"
    /\ res' = extract_code_from_callback_target(arg)
    /\ UNCHANGED <<op, arg, busy, idx, probes, picked, wport, socks, peer, code, ret, log>>

\* no socket call under way
NetIdle ==
    /\ busy = {}
    /\ idx = 0
    /\ probes = << >>
    /\ picked = None
    /\ wport = 0
    /\ socks = {}
    /\ peer = 0
    /\ code = None
    /\ ret = None
    /\ log = << >>

PkceInit ==
    /\ \/ op = "make_pkce_challenge"
          /\ arg \in {RngDraws(seed, step) : seed \in 0..MaxSeed, step \in 0..MaxStep}
       \/ op = "base64url"
          /\ arg \in SeqsUpTo(SampleBytes, MaxBytes)
    /\ res = << >>
    /\ pc = "call"
    /\ NetIdle

UrlInit ==
    /\ \/ op = "build_auth_url"
          /\ arg \in [pkce : [verifier : {<< >>}, challenge : SeqsUpTo(SampleChars, MaxChallengeLen)],
                      callback_port : {kFallbackPort},
                      provider_idp_id : {nvidia_default_idp_id},
                      now : 0..MaxClock]
       \/ op = "url_encode"
          /\ arg \in SeqsUpTo(SampleChars, MaxChallengeLen)
    /\ res = << >>
    /\ pc = "call"
    /\ NetIdle

ExtractInit ==
    /\ op = "extract_code_from_callback_target"
    /\ arg \in SampleTargets
    /\ res = << >>
    /\ pc = "call"
    /\ NetIdle

PkceNext == MakePkce \/ Base64Url
SpecPkce == PkceInit /\ [][PkceNext]_vars

UrlNext == BuildAuthUrl \/ UrlEncode
SpecUrl == UrlInit /\ [][UrlNext]_vars

SpecExtract == ExtractInit /\ [][ExtractCode]_vars

(***************************************************************************)
(* Reference definitions the properties are stated with                    *)
(***************************************************************************)
\* the pieces of s between the separators sep
RECURSIVE Split(_, _)
Split(s, sep) ==
    LET at == Find(s, sep, 0)
    IN  IF at = -1 THEN <<s>>
        ELSE <<SubSeq(s, 1, at)>> \o Split(SubSeq(s, at + 2, Len(s)), sep)

\* a parameter `key=value`: its key (the whole parameter when it has no `=`) and value
KeyOf(param) ==
    LET eq == Find(param, Ord("="), 0)
    IN  IF eq = -1 THEN param ELSE SubSeq(param, 1, eq)

ValueOf(param) ==
    LET eq == Find(param, Ord("="), 0)
    IN  IF eq = -1 THEN << >> ELSE SubSeq(param, eq + 2, Len(param))

HasEquals(param) == Find(param, Ord("="), 0) # -1

\* the parameters of the query of a target or URL, << >> when it has no `?`
QueryParams(target) ==
    LET q == Find(target, Ord("?"), 0)
    IN  IF q = -1 THEN << >> ELSE Split(SubSeq(target, q + 2, Len(target)), Ord("&"))

HasQuery(target) == Find(target, Ord("?"), 0) # -1

\* the least element of a non-empty set of numbers
Least(S) == CHOOSE x \in S : \A y \in S : x <= y

\* RFC 4648 base64 with the URL-safe alphabet and no padding, from the bit string:
\* bit k of the data (0 past its end), 6 bits to a character
BitAt(data, k) ==
    IF k >= 8 * Len(data) THEN 0
    ELSE (data[(k \div 8) + 1] \div (2 ^ (7 - (k % 8)))) % 2

Sextet(data, j) ==
    32 * BitAt(data, 6 * j) + 16 * BitAt(data, 6 * j + 1) + 8 * BitAt(data, 6 * j + 2)
        + 4 * BitAt(data, 6 * j + 3) + 2 * BitAt(data, 6 * j + 4) + BitAt(data, 6 * j + 5)

UrlSafeChar(v) ==
    IF v < 26 THEN Ord("A") + v
    ELSE IF v < 52 THEN Ord("a") + (v - 26)
    ELSE IF v < 62 THEN Ord("0") + (v - 52)
    ELSE IF v = 62 THEN Ord("-")
    ELSE Ord("_")

StdBase64UrlNoPad(data) ==
    [j \in 1..((8 * Len(data) + 5) \div 6) |-> UrlSafeChar(Sextet(data, j - 1))]

IsUrlSafe(c) == IsUpper(c) \/ IsLower(c) \/ IsDigit(c) \/ c = Ord("-") \/ c = Ord("_")

kCode == Str(<<"c","o","d","e">>)

\* the indices of the parameters `code=<non-empty value>`
CodeParamsNonEmpty(target) ==
    LET ps == QueryParams(target)
    IN  {i \in 1..Len(ps) : HasEquals(ps[i]) /\ KeyOf(ps[i]) = kCode /\ ValueOf(ps[i]) # << >>}

\* the indices of the parameters whose key is `code`, whatever the value
CodeParamsAny(target) ==
    LET ps == QueryParams(target)
    IN  {i \in 1..Len(ps) : HasEquals(ps[i]) /\ KeyOf(ps[i]) = kCode}

\* what decoding the value of the first parameter among `chosen` gives
DecodedFirst(target, chosen) ==
    IF chosen = {} THEN None
    ELSE LET d == url_decode(ValueOf(QueryParams(target)[Least(chosen)]))
         IN  IF d.tag = "throw" THEN Throw ELSE Some(d.val)

(***************************************************************************)
(* Properties                                                              *)
(***************************************************************************)
Exited == pc \in {"picked", "returned", "threw"}

\* C1: when pick_callback_port or wait_for_callback_code has handed control back to its
\* caller, on whatever path, none of the sockets it opened (probe, listening, client)
\* is still open.
C1_SocketsClosedOnExit == Exited => socks = {}

SetupFailed ==
    Has(log, "socket_failed") \/ Has(log, "bind_failed") \/ Has(log, "listen_failed")

\* C2 as claimed: whenever wait_for_callback_code returns absence after a parse failure
\* or after accept failed, the 200 response has been sent.
C2_ResponseOnEveryProtocolFailure ==
    (pc = "returned" /\ ret = None /\ (Has(log, "recv") \/ Has(log, "accept_failed")))
        => Has(log, "send")

\* C2 as amended: whenever wait_for_callback_code returns absence after it accepted a
\* connection (nothing read, malformed request line, no query, no code parameter), the
\* 200 response has been sent on that connection before the return; when accept itself
\* failed there is no connection and no response is sent.
C2_ResponseBeforeAbsence ==
    (pc = "returned" /\ ret = None)
        => /\ Has(log, "accept") => Has(log, "send")
           /\ Has(log, "accept_failed") => ~Has(log, "send")

C2_Witness == pc = "returned" /\ ret = None /\ Has(log, "recv") /\ Has(log, "send")

\* C3: extract_code_from_callback_target completes normally on every target, a code
\* value with a `%` followed by non-hexadecimal characters included: its result is a
\* code or absence, never an exception.
C3_NeverRaises ==
    (pc = "done" /\ op = "extract_code_from_callback_target")
        => res.tag \in {"some", "none"}

\* the index of the candidate that pick_callback_port returned
PickedIndex == CHOOSE i \in 1..Len(kRedirectPorts) : kRedirectPorts[i] = picked.val

\* C4 as claimed: pick_callback_port returns the first candidate, in the fixed order,
\* that was free when tried, and absence exactly when none was free.
C4_FirstFreePort ==
    pc = "picked"
        => IF picked = None
           THEN \A i \in 1..Len(probes) : ~probes[i].free
           ELSE /\ picked.val \in Ports
                /\ probes[PickedIndex].free
                /\ \A j \in 1..(PickedIndex - 1) : ~probes[j].free

\* C4 as amended: pick_callback_port returns the first candidate, in the fixed order,
\* for which a probe socket could be created and bound (the port was free then); every
\* candidate before it was in use or got no probe socket; it returns absence exactly
\* when no candidate got a probe socket that bound, all five having been tried.
C4_FirstBoundPort ==
    pc = "picked"
        => IF picked = None
           THEN /\ Len(probes) = Len(kRedirectPorts)
                /\ \A i \in 1..Len(probes) :
                      /\ probes[i].port = kRedirectPorts[i]
                      /\ probes[i].result \in {"nosocket", "inuse"}
                      /\ probes[i].free => probes[i].result = "nosocket"
           ELSE /\ picked.val \in Ports
                /\ Len(probes) = PickedIndex
                /\ probes[PickedIndex].free
                /\ probes[PickedIndex].result = "bound"
                /\ \A j \in 1..(PickedIndex - 1) :
                      /\ probes[j].port = kRedirectPorts[j]
                      /\ probes[j].result \in {"nosocket", "inuse"}
                      /\ probes[j].free => probes[j].result = "nosocket"

C4_Witness ==
    /\ pc = "picked"
    /\ picked = Some(kRedirectPorts[3])
    /\ probes[1].result = "inuse"
    /\ probes[2].result = "inuse"

\* C5 as claimed, for the targets whose value decodes without an exception:
\* extract_code_from_callback_target returns the decoded value of the first parameter
\* whose key is `code`, and absence when there is no `?` or no such parameter.
C5_FirstCodeParam ==
    (pc = "done" /\ op = "extract_code_from_callback_target"
        /\ res # Throw /\ DecodedFirst(arg, CodeParamsAny(arg)) # Throw)
        => res = DecodedFirst(arg, CodeParamsAny(arg))

\* C5 as amended: extract_code_from_callback_target returns what url_decode gives for
\* the value of the first `&`-separated parameter of the query that is `code=` followed
\* by a non-empty value (leaving by url_decode's exception when that throws); it
\* returns absence when the target has no `?` or no such parameter, a bare `code=`
\* being skipped.
C5_FirstNonEmptyCodeParam ==
    (pc = "done" /\ op = "extract_code_from_callback_target")
        => /\ res = DecodedFirst(arg, CodeParamsNonEmpty(arg))
           /\ ~HasQuery(arg) => res = None

C5_Witness ==
    /\ pc = "done"
    /\ op = "extract_code_from_callback_target"
    /\ res = Some(Str(<<"a","b","c">>))
    /\ Cardinality(CodeParamsNonEmpty(arg)) = 2
    /\ QueryParams(arg)[2] # QueryParams(arg)[1]

C7_ChallengeUnpaddedBase64Url ==
    pc = "done"
        => /\ op = "base64url"
                => /\ res = StdBase64UrlNoPad(arg)
                   /\ \A i \in 1..Len(res) : IsUrlSafe(res[i]) /\ res[i] # Ord("=")
           /\ op = "make_pkce_challenge"
                => /\ res.verifier = [i \in 1..kVerifierLen |-> charset[arg[i] + 1]]
                   /\ res.challenge = StdBase64UrlNoPad(sha256(res.verifier))
                   /\ Len(res.challenge) = 43
                   /\ \A i \in 1..Len(res.challenge) :
                         IsUrlSafe(res.challenge[i]) /\ res.challenge[i] # Ord("=")

C7_Witness ==
    /\ pc = "done"
    /\ op = "make_pkce_challenge"
    /\ Len(res.challenge) = 43
    /\ res.verifier[1] # res.verifier[2]

kCodeChallenge == Str(<<"c","o","d","e","_","c","h","a","l","l","e","n","g","e">>)

\* C8: the code_challenge parameter of the URL build_auth_url gives, percent-decoded,
\* is the challenge passed in; and url_decode(url_encode(s)) = s for any string s.
C8_ChallengeRoundTrip ==
    pc = "done"
        => /\ op = "url_encode" => url_decode(res) = [tag |-> "ok", val |-> arg]
           /\ op = "build_auth_url"
                => LET ps == QueryParams(res)
                       at == {i \in 1..Len(ps) : KeyOf(ps[i]) = kCodeChallenge}
                   IN  /\ Cardinality(at) = 1
                       /\ url_decode(ValueOf(ps[Least(at)])) = [tag |-> "ok", val |-> arg.pkce.challenge]

C8_Witness ==
    /\ pc = "done"
    /\ op = "build_auth_url"
    /\ arg.pkce.challenge = <<Ord("+"), Ord("%")>>

kCalls == <<"socket", "setsockopt", "bind", "listen", "accept", "recv", "send", "close_client", "close_server">>

IsPrefix(l, full) == Len(l) <= Len(full) /\ l = SubSeq(full, 1, Len(l))

\* C9: the socket calls of one wait_for_callback_code are a beginning of
\* socket, bind, listen, accept, recv, send, close(client), close(server), each made at
\* most once and in this order, or such a beginning up to a call that failed followed
\* by the close of the listening socket; the position of the call never goes back.
C9_ForwardOnly ==
    /\ \/ IsPrefix(log, kCalls)
       \/ log = <<"socket_failed">>
       \/ log = <<"socket", "setsockopt", "bind_failed", "close_server">>
       \/ log = <<"socket", "setsockopt", "bind", "listen_failed", "close_server">>
       \/ log = <<"socket", "setsockopt", "bind", "listen", "accept_failed", "close_server">>
    /\ pc = "w_bind" => log = SubSeq(kCalls, 1, 1)
    /\ pc = "w_accept" => log = SubSeq(kCalls, 1, 4)
    /\ pc = "w_recv" => log = SubSeq(kCalls, 1, 5)
    /\ pc = "w_send" => log = SubSeq(kCalls, 1, 6)
    /\ pc = "w_close_client" => log = SubSeq(kCalls, 1, 7)
    /\ pc = "w_close_server" => log = SubSeq(kCalls, 1, 8)
    /\ "client" \in socks => (Has(log, "accept") /\ ~Has(log, "close_client"))

C9_Witness == pc = "returned" /\ log = kCalls

\* C10: when the bind of wait_for_callback_code fails (the port it was given having
\* been taken since pick_callback_port returned it), the call has returned absence
\* with its listening socket closed, after a single bind on the port it was given, and
\* with no accept and no response.
C10_BindFailureIsTerminal ==
    Has(log, "bind_failed")
        => /\ pc = "returned"
           /\ ret = None
           /\ socks = {}
           /\ log = <<"socket", "setsockopt", "bind_failed", "close_server">>
           /\ wport = (IF picked = None THEN kFallbackPort ELSE picked.val)

C10_Witness ==
    /\ Has(log, "bind_failed")
    /\ picked = Some(wport)
    /\ wport \in busy

====
